---------------------------- MODULE Spec2Model ----------------------------
(***************************************************************************)
(* plugin-vite-electron-renderer: the plugin instance created by           *)
(* electronRenderer(options) in src/index.ts, its config hook, and the two *)
(* alias resolvers (built-in and declared modules) with their in-memory    *)
(* cache (moduleCache) and on-disk cache (generated wrapper files).        *)
(*                                                                         *)
(* Strings are sequences of one-character strings, so that prefixing,      *)
(* sanitising, escaping and joining are computed character by character.   *)
(***************************************************************************)
EXTENDS Naturals, Sequences, FiniteSets, TLC

(***************************************************************************)
(* String literals                                                         *)
(***************************************************************************)
electron == <<"e", "l", "e", "c", "t", "r", "o", "n">>
fs == <<"f", "s">>
NodePrefix == <<"n", "o", "d", "e", ":">>
serialport == <<"s", "e", "r", "i", "a", "l", "p", "o", "r", "t">>
node_fetch == <<"n", "o", "d", "e", "-", "f", "e", "t", "c", "h">>
custom_module == <<"c", "u", "s", "t", "o", "m", "-", "m", "o", "d", "u", "l", "e">>
my_special_module == <<"m", "y", "-", "s", "p", "e", "c", "i", "a", "l", "-", "m", "o", "d", "u", "l", "e">>
lodash == <<"l", "o", "d", "a", "s", "h">>
CACHE_DIR == <<".", "v", "i", "t", "e", "-", "e", "l", "e", "c", "t", "r", "o", "n", "-", "r", "e", "n", "d", "e", "r", "e", "r">>
NODE_MODULES == <<"n", "o", "d", "e", "_", "m", "o", "d", "u", "l", "e", "s">>
MjsExt == <<".", "m", "j", "s">>
CjsExt == <<".", "c", "j", "s">>
DefaultBase == <<".", "/">>
Slash == <<"/">>
scope_package == <<"@", "s", "c", "o", "p", "e", "/", "p", "a", "c", "k", "a", "g", "e">>
scope_package_flat == <<"_", "s", "c", "o", "p", "e", "_", "p", "a", "c", "k", "a", "g", "e">>
lodash_fp == <<"l", "o", "d", "a", "s", "h", "/", "f", "p">>
lodash_fp_flat == <<"l", "o", "d", "a", "s", "h", "_", "f", "p">>
file_js == <<"f", "i", "l", "e", ".", "j", "s">>
filexjs == <<"f", "i", "l", "e", "x", "j", "s">>
c_plus_plus == <<"c", "+", "+">>
jquery_dollar == <<"j", "q", "u", "e", "r", "y", "$">>
node_electron == NodePrefix \o electron
CustomBase == <<"/", "c", "u", "s", "t", "o", "m", "/">>
AtSign == <<"@">>
some_peer_dependency == <<"s", "o", "m", "e", "-", "p", "e", "e", "r", "-", "d", "e", "p", "e", "n", "d", "e", "n", "c", "y">>
SrcDir == <<"/", "s", "r", "c">>

\* An absent string (undefined): an unset field, a Map miss.  Like the empty
\* string it is falsy, and the code tests strings by truthiness.
NoValue == <<>>

\* An absent structured value
Absent == [shape |-> "absent", items |-> <<>>]

\* A string held by a field that is tested with ?? rather than by truthiness:
\* the empty string is a value there, not an absence
Str(s) == [shape |-> "string", items |-> s]

Range(s) == {s[i] : i \in 1..Len(s)}

Includes(s, x) == \E i \in 1..Len(s) : s[i] = x

StartsWith(s, p) == Len(s) >= Len(p) /\ SubSeq(s, 1, Len(p)) = p

DropPrefix(s, p) == SubSeq(s, Len(p) + 1, Len(s))

(***************************************************************************)
(* The environment of the process                                          *)
(***************************************************************************)
\* process.cwd()
cwd == <<"/", "a", "p", "p">>

\* a project root below a workspace whose node_modules is one level up
RootPkg == <<"/", "w", "/", "p", "k", "g">>

\* the directories that contain a node_modules folder
NodeModulesParents == {cwd, <<"/", "w">>}

\* builtinModules without the names starting with "_"
builtins == <<fs>>

\* "electron", the built-ins, the node:-prefixed built-ins
electronBuiltins ==
    <<electron>> \o builtins \o [i \in 1..Len(builtins) |-> NodePrefix \o builtins[i]]

(***************************************************************************)
(* Paths                                                                   *)
(***************************************************************************)
\* path.posix.join of an absolute directory and a relative name without
\* "." or ".." segments
PosixJoin(dir, name) == dir \o Slash \o name

LastSlash(p) ==
    IF \E i \in 1..Len(p) : p[i] = "/"
    THEN CHOOSE i \in 1..Len(p) : p[i] = "/" /\ \A j \in (i + 1)..Len(p) : p[j] # "/"
    ELSE 0

\* path.posix.dirname
Dirname(p) ==
    LET i == LastSlash(p)
    IN  IF i = 0 THEN <<".">> ELSE IF i = 1 THEN Slash ELSE SubSeq(p, 1, i - 1)

RECURSIVE findNodeModules(_)
findNodeModules(current) ==
    IF current \in NodeModulesParents
    THEN PosixJoin(current, NODE_MODULES)
    ELSE IF Dirname(current) = current THEN NoValue
         ELSE findNodeModules(Dirname(current))

\* source.replace(/[/@]/g, "_")
SafeName(source) ==
    [i \in 1..Len(source) |-> IF source[i] \in {"/", "@"} THEN "_" ELSE source[i]]

\* the wrapper path the built-in resolver computes
BuiltinFile(dir, source) == PosixJoin(dir, source) \o MjsExt

\* the wrapper path the declared-module resolver computes
DeclaredFile(dir, source) == PosixJoin(dir, SafeName(source)) \o MjsExt

\* the bundle path prebundleModule computes
Outfile(outdir, module) == PosixJoin(outdir, SafeName(module)) \o CjsExt

(***************************************************************************)
(* Regular expressions of the two aliases                                  *)
(***************************************************************************)
RegexMeta == {".", "*", "+", "?", "^", "$", "{", "}", "(", ")", "|", "[", "]", "\\"}

\* An escaping that leaves every character as it is
escapeRegex_None(str) == str

RECURSIVE escapeRegex(_)
escapeRegex(str) ==
    IF str = <<>> THEN <<>>
    ELSE (IF Head(str) \in RegexMeta THEN <<"\\", Head(str)>> ELSE <<Head(str)>>)
         \o escapeRegex(Tail(str))

\* Whether the whole of s matches the alternative alt: an escaped character
\* matches itself, "." matches any character, any other character matches
\* itself.
RECURSIVE AltMatches(_, _)
AltMatches(alt, s) ==
    IF alt = <<>> THEN s = <<>>
    ELSE IF Head(alt) = "\\" /\ Len(alt) >= 2
         THEN s # <<>> /\ Head(s) = alt[2] /\ AltMatches(Tail(Tail(alt)), Tail(s))
         ELSE s # <<>> /\ (Head(alt) = "." \/ Head(alt) = Head(s))
                       /\ AltMatches(Tail(alt), Tail(s))

\* new RegExp(`^(?:node:)?(${["electron", ...builtins].join("|")})$`)
PrimaryFind == [prefix |-> NodePrefix, alts |-> <<electron>> \o builtins]

\* new RegExp(`^(${resolveKeys.map(escapeRegex).join("|")})$`)
SecondaryFind(keys) ==
    [prefix |-> <<>>, alts |-> [i \in 1..Len(keys) |-> escapeRegex(keys[i])]]

AnyAltMatches(find, s) == \E i \in 1..Len(find.alts) : AltMatches(find.alts[i], s)

\* find.test(specifier): the optional prefix is tried first, then without it
FindMatches(find, specifier) ==
    \/ /\ find.prefix # <<>>
       /\ StartsWith(specifier, find.prefix)
       /\ AnyAltMatches(find, DropPrefix(specifier, find.prefix))
    \/ AnyAltMatches(find, specifier)

\* A replacement with the whole match ("$&") in place of the group
ReplaceGroup1_WholeMatch(find, specifier) == specifier

\* specifier.replace(find, "$1"): the text captured by the group; a specifier
\* that does not match is left as it is
ReplaceGroup1(find, specifier) ==
    IF /\ find.prefix # <<>>
       /\ StartsWith(specifier, find.prefix)
       /\ AnyAltMatches(find, DropPrefix(specifier, find.prefix))
    THEN DropPrefix(specifier, find.prefix)
    ELSE specifier

(***************************************************************************)
(* The plugin options                                                      *)
(***************************************************************************)
\* options.resolve, in Object.entries order.  build is "none" when the entry
\* has no build function, and otherwise names the helper the build function
\* awaits: "cjs" for async ({ cjs }) => cjs(key), "esm" for
\* async ({ esm }) => esm(key, buildOptions).
ResolveOptions ==
    << [key |-> serialport,        type |-> "cjs", build |-> "none"],
       [key |-> node_fetch,        type |-> "esm", build |-> "none"],
       [key |-> custom_module,     type |-> "cjs", build |-> "cjs"],
       [key |-> my_special_module, type |-> "esm", build |-> "esm"] >>

DeclaredKeys == {ResolveOptions[i].key : i \in 1..Len(ResolveOptions)}

\* options.resolve?.[source]; present is FALSE when the lookup is undefined
OptionOf(source) ==
    IF source \in DeclaredKeys
    THEN LET o == ResolveOptions[CHOOSE i \in 1..Len(ResolveOptions) :
                                     ResolveOptions[i].key = source]
         IN  [present |-> TRUE, type |-> o.type, build |-> o.build]
    ELSE [present |-> FALSE, type |-> "none", build |-> "none"]

\* the import specifiers the host hands to the built-in alias
BuiltinSpecifiers == Range(electronBuiltins)

\* the specifiers that reach the declared-module resolver: the declared
\* identifiers and one identifier without any configuration
DeclaredSpecifiers == DeclaredKeys \cup {lodash}

\* the failures esbuild.build can reject with
BundlerErrors == {"entry not found", "syntax error"}

\* what the host's own resolution (this.resolve) can answer for a source
Null == [null |-> TRUE, id |-> NoValue]

Resolved(id) == [null |-> FALSE, id |-> id]

HostResults(source) ==
    {Null, Resolved(PosixJoin(PosixJoin(cwd, NODE_MODULES), source))}

(***************************************************************************)
(* Bounds                                                                  *)
(***************************************************************************)
MaxPasses == 2
MaxCalls == 2
MaxKeys == 2
MaxNames == 3

(***************************************************************************)
(* The caller's configuration objects                                      *)
(***************************************************************************)
EmptyUserConfig ==
    [root |-> NoValue, base |-> Absent, output |-> Absent, ignore |-> Absent,
     alias |-> Absent, exclude |-> Absent]

UserConfigs == {EmptyUserConfig, [EmptyUserConfig EXCEPT !.root = RootPkg]}

Commands == {"build", "serve"}

\* The cache directories have not been emptied since the instance was created
NeverCleared == [happened |-> FALSE, calls |-> 0]

\* No function has been applied on its own
NoProbe == [fn |-> "none"]

(***************************************************************************)
(* State                                                                   *)
(***************************************************************************)
VARIABLES
    root,         \* let root
    cacheDir,     \* let cacheDir
    resolveKeys,  \* const resolveKeys: string[]
    moduleCache,  \* const moduleCache = new Map<string, string>()
    disk,         \* the files under the cache directories: path -> content
    config,       \* the configuration object of the latest config pass
    command,      \* the command of the latest config pass
    passes,       \* the number of config passes so far
    calls,        \* the resolver calls made so far, in the order they started
    callerConfig, \* the configuration object as the caller handed it to the latest pass
    cleared,      \* the latest emptying of the cache directories from outside
    probe         \* the arguments and the result of a function applied on its own

vars == <<root, cacheDir, resolveKeys, moduleCache, disk, config, command, passes, calls,
          callerConfig, cleared, probe>>

\* A lookup that never finds the entry
CacheGet_Miss(source) == NoValue

\* moduleCache.get(source)
CacheGet(source) ==
    IF source \in DOMAIN moduleCache THEN moduleCache[source] ELSE NoValue

\* A resolver that forgets to record the path
CacheSet_Lost(m, source, id) == m

\* moduleCache.set(source, id) applied to the map m
CacheSet(m, source, id) ==
    [s \in DOMAIN m \cup {source} |-> IF s = source THEN id ELSE m[s]]

\* fs.existsSync(path)
existsSync(path) == path \in DOMAIN disk

\* A write that never reaches the file system
writeFileSync_Lost(d, path, content) == d

\* fs.writeFileSync(path, content) applied to the file system d
writeFileSync(d, path, content) ==
    [p \in DOMAIN d \cup {path} |-> IF p = path THEN content ELSE d[p]]

\* The cache directories a config pass can select
CacheDirs ==
    {PosixJoin(findNodeModules(r), CACHE_DIR) : r \in {cwd, RootPkg}}

\* The wrapper files an earlier session that used the cache directory d has
\* left behind
PriorFiles(d) ==
    {BuiltinFile(d, s) : s \in Range(<<electron>> \o builtins)}
    \cup {DeclaredFile(d, s) : s \in DeclaredKeys}

\* The file systems a session can start on: an empty cache, or the cache of an
\* earlier session
PriorDisks == {{}} \cup {PriorFiles(d) : d \in CacheDirs}

PriorContent == [kind |-> "prior"]

(***************************************************************************)
(* The host configuration adapter                                          *)
(***************************************************************************)
\* The aliases a config pass builds from the keys collected so far
Aliases(keys) ==
    <<[find |-> PrimaryFind, replacement |-> <<"$", "1">>, customResolver |-> "builtin"]>>
    \o (IF Len(keys) > 0
        THEN <<[find |-> SecondaryFind(keys), replacement |-> <<"$", "1">>,
                customResolver |-> "declared"]>>
        ELSE <<>>)

\* An adapter that puts the plugin's aliases in front of the caller's
modifyAlias_Prepend(cfg, aliases) ==
    LET given == cfg.alias
        list  == IF given.shape = "absent" THEN <<>>
                 ELSE IF given.shape = "mapping"
                 THEN [i \in 1..Len(given.items) |->
                          [find |-> given.items[i][1], replacement |-> given.items[i][2]]]
                 ELSE given.items
    IN  [cfg EXCEPT !.alias = [shape |-> "array", items |-> aliases \o list]]

modifyAlias(cfg, aliases) ==
    LET given == cfg.alias
        list  == IF given.shape = "absent" THEN <<>>
                 ELSE IF given.shape = "mapping"
                 THEN [i \in 1..Len(given.items) |->
                          [find |-> given.items[i][1], replacement |-> given.items[i][2]]]
                 ELSE given.items
    IN  [cfg EXCEPT !.alias = [shape |-> "array", items |-> list \o aliases]]

RECURSIVE PushMissing(_, _)
PushMissing(list, more) ==
    IF more = <<>> THEN list
    ELSE PushMissing(IF Includes(list, Head(more)) THEN list ELSE Append(list, Head(more)),
                     Tail(more))

\* An adapter that pushes every name without looking at the list
modifyOptimizeDeps_PushAll(cfg, exclude) ==
    LET given == IF cfg.exclude.shape = "absent" THEN <<>> ELSE cfg.exclude.items
    IN  [cfg EXCEPT !.exclude = [shape |-> "array", items |-> given \o exclude]]

modifyOptimizeDeps(cfg, exclude) ==
    LET given == IF cfg.exclude.shape = "absent" THEN <<>> ELSE cfg.exclude.items
    IN  [cfg EXCEPT !.exclude = [shape |-> "array", items |-> PushMissing(given, exclude)]]

\* A default that overwrites what the caller set
BaseDefault_Overwrite(base) == Str(DefaultBase)

\* config.base ??= "./"
BaseDefault(base) == IF base.shape = "absent" THEN Str(DefaultBase) ELSE base

\* An adapter that leaves the freeze flag of a given target alone
FreezeDefault_Keep(o) == o

\* o.freeze ??= false
FreezeDefault(o) == IF o.freeze = "unset" THEN [o EXCEPT !.freeze = "false"] ELSE o

\* rollupOptions.output after the adapter: every given target gets the freeze
\* default, an absent output becomes { freeze: false }
OutputDefault(output) ==
    IF output.shape = "absent"
    THEN [shape |-> "object", items |-> <<[freeze |-> "false"]>>]
    ELSE [output EXCEPT !.items =
             [i \in 1..Len(output.items) |-> FreezeDefault(output.items[i])]]

\* A merge that pushes every built-in onto a given list
IgnoreMerge_PushAll(ignore) ==
    IF ignore.shape = "function"
    THEN [ignore EXCEPT !.items = PushMissing(ignore.items, electronBuiltins)]
    ELSE IF ignore.shape = "array"
    THEN [ignore EXCEPT !.items = ignore.items \o electronBuiltins]
    ELSE [shape |-> "array", items |-> electronBuiltins]

\* A merge that installs a predicate which does not ask the caller's
IgnoreMerge_DropsPredicate(ignore) ==
    IF ignore.shape = "function"
    THEN [ignore EXCEPT !.items = electronBuiltins]
    ELSE IF ignore.shape = "array"
    THEN [ignore EXCEPT !.items =
             ignore.items \o
             SelectSeq(electronBuiltins, LAMBDA b : ~Includes(ignore.items, b))]
    ELSE [shape |-> "array", items |-> electronBuiltins]

\* commonjsOptions.ignore after the adapter.  A predicate is held as the list
\* of the ids it returns true for: the installed predicate returns true where
\* the caller's does, and for the ids electronBuiltins includes.
IgnoreMerge(ignore) ==
    IF ignore.shape = "function"
    THEN [ignore EXCEPT !.items = PushMissing(ignore.items, electronBuiltins)]
    ELSE IF ignore.shape = "array"
    THEN [ignore EXCEPT !.items =
             ignore.items \o
             SelectSeq(electronBuiltins, LAMBDA b : ~Includes(ignore.items, b))]
    ELSE [shape |-> "array", items |-> electronBuiltins]

adaptElectron(cfg) ==
    [cfg EXCEPT !.base = BaseDefault(cfg.base),
                !.output = OutputDefault(cfg.output),
                !.ignore = IgnoreMerge(cfg.ignore)]

(***************************************************************************)
(* The config hook                                                         *)
(***************************************************************************)
\* The keys one pass pushes: every entry, except the esm ones during build
PassKeys(cmd) ==
    LET kept == SelectSeq(ResolveOptions, LAMBDA o : ~(cmd = "build" /\ o.type = "esm"))
    IN  [i \in 1..Len(kept) |-> kept[i].key]

config_hook(userConfig, cmd) ==
    LET newRoot == IF userConfig.root # NoValue THEN userConfig.root ELSE cwd
        found   == findNodeModules(newRoot)
        nodeModulesPath == IF found # NoValue THEN found ELSE PosixJoin(cwd, NODE_MODULES)
        keys    == resolveKeys \o PassKeys(cmd)
    IN  /\ passes < MaxPasses
        /\ root' = newRoot
        /\ cacheDir' = PosixJoin(nodeModulesPath, CACHE_DIR)
        /\ resolveKeys' = keys
        /\ config' = adaptElectron(modifyOptimizeDeps(modifyAlias(userConfig, Aliases(keys)), keys))
        /\ command' = cmd
        /\ passes' = passes + 1
        /\ callerConfig' = userConfig
        /\ UNCHANGED <<moduleCache, disk, calls, cleared, probe>>

Config == \E userConfig \in UserConfigs, cmd \in Commands : config_hook(userConfig, cmd)

(***************************************************************************)
(* Resolver calls                                                          *)
(***************************************************************************)
Pending == [status |-> "pending", value |-> Null, error |-> "none"]

Fulfilled(v) == [status |-> "fulfilled", value |-> v, error |-> "none"]

Rejected(e) == [status |-> "rejected", value |-> Null, error |-> e]

NotAsked == [asked |-> FALSE, answer |-> Null]

Asked(h) == [asked |-> TRUE, answer |-> h]

\* The texts the snippet generators produce, by generator and argument
ElectronSnippet == [kind |-> "electron", of |-> electron]

ModuleSnippet(module) == [kind |-> "module", of |-> module]

PreBundledSnippet(outfile) == [kind |-> "prebundled", of |-> outfile]

EmptySnippet == [kind |-> "empty", of |-> NoValue]

\* What esbuild.build leaves at outfile when it succeeds
Bundle(module) == [kind |-> "bundle", of |-> module]

\* The calls that have returned or thrown
DoneCalls == {i \in 1..Len(calls) : calls[i].pc = "done"}

\* A return that hands the host's answer on as it is
ReturnValue_Unmasked(id, source, hostAnswer) ==
    IF id = source THEN Fulfilled(hostAnswer) ELSE Fulfilled(Resolved(id))

\* return id === source ? this.resolve(...).then(r => r || { id: source }) : { id }
ReturnValue(id, source, hostAnswer) ==
    IF id = source
    THEN Fulfilled(IF hostAnswer.null THEN Resolved(source) ELSE hostAnswer)
    ELSE Fulfilled(Resolved(id))

\* A built-in resolver that regenerates on every call
BuiltinRoute_AlwaysGenerate(cached, onDisk) == "generate"

\* What the built-in resolver does after its lookup in moduleCache
BuiltinRoute(cached, onDisk) ==
    IF cached # NoValue THEN "memory"
    ELSE IF onDisk THEN "disk"
    ELSE "generate"

\* customResolver of the primary alias: it has no await, so the whole body
\* runs in one step
BuiltinResolver(specifier) ==
    LET source == ReplaceGroup1(PrimaryFind, specifier)
        cached == CacheGet(source)
        file   == BuiltinFile(cacheDir, source)
        route  == BuiltinRoute(cached, existsSync(file))
        id     == IF route = "memory" THEN cached ELSE file
        call   == [resolver |-> "builtin", specifier |-> specifier, source |-> source,
                   matched |-> TRUE, doneBefore |-> DoneCalls,
                   dir |-> cacheDir, filename |-> file,
                   pc |-> "done", route |-> route, awaiting |-> "none",
                   bundler |-> "none",
                   trace |-> IF route = "memory" THEN <<>>
                             ELSE IF route = "disk" THEN <<"record">>
                             ELSE <<"ensureDir",
                                    IF source = electron THEN "generateElectronSnippet"
                                    ELSE "generateModuleSnippet",
                                    "write", "record">>,
                   host |-> NotAsked,
                   result |-> Fulfilled(Resolved(id))]
    IN  /\ passes >= 1
        /\ Len(calls) < MaxCalls
        /\ FindMatches(PrimaryFind, specifier)
        /\ disk' = IF route = "generate"
                   THEN writeFileSync(disk, file,
                            IF source = electron THEN ElectronSnippet ELSE ModuleSnippet(source))
                   ELSE disk
        /\ moduleCache' = IF route = "memory" THEN moduleCache
                          ELSE CacheSet(moduleCache, source, id)
        /\ calls' = Append(calls, call)
        /\ UNCHANGED <<root, cacheDir, resolveKeys, config, command, passes,
                       callerConfig, cleared, probe>>

\* A dispatch that looks at the type before the build function
DispatchRoute_TypeFirst(opt) ==
    IF ~opt.present THEN "passthrough"
    ELSE IF opt.type = "cjs" THEN "cjs"
    ELSE IF opt.type = "esm" THEN "esm"
    ELSE IF opt.build # "none" THEN "build"
    ELSE "empty"

\* A dispatch that pre-bundles every module without a build function
DispatchRoute_Bundles(opt) ==
    IF ~opt.present THEN "passthrough"
    ELSE IF opt.build # "none" THEN "build"
    ELSE "esm"

\* How a declared module is generated once memory and disk have missed
DispatchRoute(opt) ==
    IF ~opt.present THEN "passthrough"
    ELSE IF opt.build # "none" THEN "build"
    ELSE IF opt.type = "cjs" THEN "cjs"
    ELSE IF opt.type = "esm" THEN "esm"
    ELSE "empty"

\* A resolver that regenerates without looking at the disk
DeclaredRoute_NoDiskCheck(cached, onDisk, opt) ==
    IF cached # NoValue THEN "memory" ELSE DispatchRoute(opt)

\* What the declared-module resolver does after its lookup in moduleCache
DeclaredRoute(cached, onDisk, opt) ==
    IF cached # NoValue THEN "memory"
    ELSE IF onDisk THEN "disk"
    ELSE DispatchRoute(opt)

\* The promise the call awaits on its route: "esm" is esbuild.build inside
\* prebundleModule, "cjs" the resolved promise of the cjs helper
Awaited(route, opt) ==
    IF route = "build" THEN opt.build
    ELSE IF route = "esm" THEN "esm"
    ELSE "none"

\* What the call does before its first await, or before its return
StartTrace(route, opt) ==
    IF route = "build"
    THEN <<"build">> \o (IF opt.build = "esm" THEN <<"prebundleModule", "esbuild.build">>
                         ELSE <<"generateModuleSnippet">>)
    ELSE IF route = "esm" THEN <<"prebundleModule", "esbuild.build">>
    ELSE IF route = "cjs"
    THEN <<"generateModuleSnippet", "log", "ensureDir", "write", "record">>
    ELSE IF route = "empty" THEN <<"log", "ensureDir", "write", "record">>
    ELSE IF route = "memory" THEN <<>>
    ELSE <<"record">>

\* customResolver of the secondary alias, from the call up to its first
\* await, or to its return when it meets none
DeclaredResolver(source, hostAnswer) ==
    LET cached   == CacheGet(source)
        filename == DeclaredFile(cacheDir, source)
        opt      == OptionOf(source)
        route    == DeclaredRoute(cached, existsSync(filename), opt)
        waits    == Awaited(route, opt)
        id       == IF route = "memory" THEN cached
                    ELSE IF route = "passthrough" THEN source
                    ELSE filename
        asks     == waits = "none" /\ id = source
        call     == [resolver |-> "declared", specifier |-> source, source |-> source,
                     matched |-> FindMatches(SecondaryFind(resolveKeys), source),
                     doneBefore |-> DoneCalls,
                     dir |-> cacheDir, filename |-> filename,
                     pc |-> IF waits = "none" THEN "done" ELSE "await",
                     route |-> route, awaiting |-> waits,
                     bundler |-> IF waits = "esm" THEN "pending" ELSE "none",
                     trace |-> StartTrace(route, opt) \o (IF asks THEN <<"host">> ELSE <<>>),
                     host |-> IF asks THEN Asked(hostAnswer) ELSE NotAsked,
                     result |-> IF waits = "none"
                                THEN ReturnValue(id, source, hostAnswer)
                                ELSE Pending]
    IN  /\ Len(resolveKeys) > 0
        /\ Len(calls) < MaxCalls
        /\ asks \/ hostAnswer = Null
        /\ disk' = IF route \in {"cjs", "empty"}
                   THEN writeFileSync(disk, filename,
                            IF route = "cjs" THEN ModuleSnippet(source) ELSE EmptySnippet)
                   ELSE disk
        /\ moduleCache' = IF route = "memory" \/ waits # "none"
                          THEN moduleCache
                          ELSE CacheSet(moduleCache, source, id)
        /\ calls' = Append(calls, call)
        /\ UNCHANGED <<root, cacheDir, resolveKeys, config, command, passes,
                       callerConfig, cleared, probe>>

\* A resolver that catches the rejection and carries on without a snippet
AwaitReturns_Swallow(outcome) == TRUE

\* Whether the awaited promise hands a snippet back to the resolver: a
\* rejection of esbuild.build is thrown through prebundleModule, the build
\* function and the resolver, none of which catches it
AwaitReturns(outcome) == outcome = "ok"

\* The rest of the same call once the awaited promise has settled: a snippet
\* is logged, written and recorded; a rejection ends the call
DeclaredResume(i, outcome) ==
    LET c       == calls[i]
        outfile == Outfile(c.dir, c.source)
        snippet == IF outcome # "ok" THEN EmptySnippet
                   ELSE IF c.awaiting = "esm" THEN PreBundledSnippet(outfile)
                   ELSE ModuleSnippet(c.source)
        bundled == IF c.awaiting = "esm" /\ outcome = "ok"
                   THEN writeFileSync(disk, outfile, Bundle(c.source))
                   ELSE disk
        settled == IF c.awaiting = "esm" THEN outcome ELSE "none"
    IN  /\ c.pc = "await"
        /\ outcome = "ok" \/ c.awaiting = "esm"
        /\ IF AwaitReturns(outcome)
           THEN /\ disk' = writeFileSync(bundled, c.filename, snippet)
                /\ moduleCache' = CacheSet(moduleCache, c.source, c.filename)
                /\ calls' = [calls EXCEPT ![i] =
                      [c EXCEPT !.pc = "done",
                                !.bundler = settled,
                                !.trace = c.trace \o
                                   (IF c.awaiting = "esm" /\ outcome = "ok"
                                    THEN <<"generatePreBundledSnippet">> ELSE <<>>)
                                   \o <<"log", "ensureDir", "write", "record">>,
                                !.result = ReturnValue(c.filename, c.source, Null)]]
           ELSE /\ calls' = [calls EXCEPT ![i] =
                      [c EXCEPT !.pc = "done",
                                !.bundler = settled,
                                !.trace = Append(c.trace, "throw"),
                                !.result = Rejected(outcome)]]
                /\ UNCHANGED <<disk, moduleCache>>
        /\ UNCHANGED <<root, cacheDir, resolveKeys, config, command, passes,
                       callerConfig, cleared, probe>>

ResolveBuiltin == \E specifier \in BuiltinSpecifiers : BuiltinResolver(specifier)

ResolveDeclared ==
    \E source \in DeclaredSpecifiers :
        \E hostAnswer \in HostResults(source) : DeclaredResolver(source, hostAnswer)

Resume ==
    \E i \in 1..Len(calls) :
        \E outcome \in {"ok"} \cup BundlerErrors : DeclaredResume(i, outcome)

(***************************************************************************)
(* Specification                                                           *)
(***************************************************************************)
\* A plugin instance right after electronRenderer(options) has returned
InitInstance ==
    /\ root = NoValue
    /\ cacheDir = NoValue
    /\ resolveKeys = <<>>
    /\ moduleCache = [s \in {} |-> NoValue]
    /\ \E files \in PriorDisks : disk = [p \in files |-> PriorContent]
    /\ config = EmptyUserConfig
    /\ command = "none"
    /\ passes = 0
    /\ calls = <<>>
    /\ callerConfig = EmptyUserConfig
    /\ cleared = NeverCleared

Init == InitInstance /\ probe = NoProbe

Next == Config \/ ResolveBuiltin \/ ResolveDeclared \/ Resume

Spec == Init /\ [][Next]_vars

(***************************************************************************)
(* Config passes over the configurations a caller can hand in              *)
(***************************************************************************)
Object(items) == [shape |-> "object", items |-> items]

Array(items) == [shape |-> "array", items |-> items]

Mapping(items) == [shape |-> "mapping", items |-> items]

\* A predicate, held as the list of the ids it returns true for
Function(items) == [shape |-> "function", items |-> items]

\* config.base as the caller sets it: unset, a path, the empty string
Bases == {Absent, Str(CustomBase), Str(<<>>)}

\* build.rollupOptions.output: unset, one target, a list of targets
Outputs ==
    {Absent,
     Object(<<[freeze |-> "unset"]>>),
     Object(<<[freeze |-> "true"]>>),
     Array(<<>>),
     Array(<<[freeze |-> "false"]>>),
     Array(<<[freeze |-> "unset"], [freeze |-> "true"]>>)}

\* build.commonjsOptions.ignore: unset, a list of ids, a predicate
Ignores ==
    {Absent,
     Array(<<>>),
     Array(electronBuiltins),
     Array(<<fs, lodash>>),
     Array(<<lodash, NodePrefix \o fs, electron>>),
     Function(<<>>),
     Function(<<fs>>),
     Function(<<lodash>>)}

\* resolve.alias: unset, an object of find: replacement entries, a list
AliasOptions ==
    {Absent,
     Mapping(<<<<AtSign, SrcDir>>, <<lodash, lodash_fp>>>>),
     Array(<<>>),
     Array(<<[find |-> lodash, replacement |-> lodash_fp],
             [find |-> AtSign, replacement |-> SrcDir]>>)}

\* optimizeDeps.exclude: unset, or a list of module names
Excludes == {Absent, Array(<<lodash>>), Array(<<serialport, lodash>>)}

\* The configurations handed to the config hook: the empty one with one
\* section filled in, and one with every section filled in
AdapterConfigs ==
    UserConfigs
    \cup {[EmptyUserConfig EXCEPT !.base = b] : b \in Bases}
    \cup {[EmptyUserConfig EXCEPT !.output = o] : o \in Outputs}
    \cup {[EmptyUserConfig EXCEPT !.ignore = i] : i \in Ignores}
    \cup {[EmptyUserConfig EXCEPT !.alias = a] : a \in AliasOptions}
    \cup {[EmptyUserConfig EXCEPT !.exclude = e] : e \in Excludes}
    \cup {[root |-> RootPkg, base |-> Str(CustomBase),
           output |-> Array(<<[freeze |-> "unset"], [freeze |-> "true"]>>),
           ignore |-> Function(<<lodash>>),
           alias |-> Mapping(<<<<AtSign, SrcDir>>, <<lodash, lodash_fp>>>>),
           exclude |-> Array(<<serialport, lodash>>)]}

ConfigPass ==
    \E userConfig \in AdapterConfigs, cmd \in Commands : config_hook(userConfig, cmd)

SpecConfig == Init /\ [][ConfigPass]_vars

(***************************************************************************)
(* A session during which the cache directories are emptied from outside   *)
(***************************************************************************)
\* Every file under the cache directories is deleted by another process; the
\* instance keeps its moduleCache.  cleared.calls is the number of resolver
\* calls that had started by then.
ClearCache ==
    /\ DOMAIN disk # {}
    /\ disk' = [p \in {} |-> PriorContent]
    /\ cleared' = [happened |-> TRUE, calls |-> Len(calls)]
    /\ UNCHANGED <<root, cacheDir, resolveKeys, moduleCache, config, command, passes, calls,
                   callerConfig, probe>>

NextCleared == Next \/ ClearCache

SpecCleared == Init /\ [][NextCleared]_vars

(***************************************************************************)
(* A session during which writes to the cache directory can fail           *)
(***************************************************************************)
\* What a failed fs.writeFileSync leaves at the path: nothing when the file
\* could not be opened, a truncated file when it was opened and the write
\* failed afterwards
WriteFailures == {"nothing", "truncated"}

Truncated == [kind |-> "truncated", of |-> NoValue]

\* fs.writeFileSync(path, content) that throws, applied to the file system d
FailedWrite(d, path, left) ==
    IF left = "truncated" THEN writeFileSync(d, path, Truncated) ELSE d

\* customResolver of the primary alias when its writeFileSync throws: the
\* exception leaves the resolver before moduleCache.set
BuiltinWriteFails(specifier, left) ==
    LET source == ReplaceGroup1(PrimaryFind, specifier)
        cached == CacheGet(source)
        file   == BuiltinFile(cacheDir, source)
        route  == BuiltinRoute(cached, existsSync(file))
        call   == [resolver |-> "builtin", specifier |-> specifier, source |-> source,
                   matched |-> TRUE, doneBefore |-> DoneCalls,
                   dir |-> cacheDir, filename |-> file,
                   pc |-> "done", route |-> route, awaiting |-> "none",
                   bundler |-> "none",
                   trace |-> <<"ensureDir",
                               IF source = electron THEN "generateElectronSnippet"
                               ELSE "generateModuleSnippet",
                               "write fails", "throw">>,
                   host |-> NotAsked,
                   result |-> Rejected("write failed")]
    IN  /\ passes >= 1
        /\ Len(calls) < MaxCalls
        /\ FindMatches(PrimaryFind, specifier)
        /\ route = "generate"
        /\ disk' = FailedWrite(disk, file, left)
        /\ calls' = Append(calls, call)
        /\ UNCHANGED <<root, cacheDir, resolveKeys, moduleCache, config, command, passes,
                       callerConfig, cleared, probe>>

\* customResolver of the secondary alias on a route without await, when its
\* writeFileSync throws
DeclaredWriteFails(source, left) ==
    LET cached   == CacheGet(source)
        filename == DeclaredFile(cacheDir, source)
        opt      == OptionOf(source)
        route    == DeclaredRoute(cached, existsSync(filename), opt)
        call     == [resolver |-> "declared", specifier |-> source, source |-> source,
                     matched |-> FindMatches(SecondaryFind(resolveKeys), source),
                     doneBefore |-> DoneCalls,
                     dir |-> cacheDir, filename |-> filename,
                     pc |-> "done", route |-> route, awaiting |-> "none",
                     bundler |-> "none",
                     trace |-> (IF route = "cjs" THEN <<"generateModuleSnippet">> ELSE <<>>)
                               \o <<"log", "ensureDir", "write fails", "throw">>,
                     host |-> NotAsked,
                     result |-> Rejected("write failed")]
    IN  /\ Len(resolveKeys) > 0
        /\ Len(calls) < MaxCalls
        /\ route \in {"cjs", "empty"}
        /\ disk' = FailedWrite(disk, filename, left)
        /\ calls' = Append(calls, call)
        /\ UNCHANGED <<root, cacheDir, resolveKeys, moduleCache, config, command, passes,
                       callerConfig, cleared, probe>>

\* The rest of a suspended call whose awaited promise was fulfilled and whose
\* writeFileSync then throws: esbuild has written its outfile, the wrapper is
\* not recorded
ResumeWriteFails(i, left) ==
    LET c       == calls[i]
        outfile == Outfile(c.dir, c.source)
        bundled == IF c.awaiting = "esm"
                   THEN writeFileSync(disk, outfile, Bundle(c.source))
                   ELSE disk
    IN  /\ c.pc = "await"
        /\ disk' = FailedWrite(bundled, c.filename, left)
        /\ calls' = [calls EXCEPT ![i] =
              [c EXCEPT !.pc = "done",
                        !.bundler = IF c.awaiting = "esm" THEN "ok" ELSE "none",
                        !.trace = c.trace \o
                           (IF c.awaiting = "esm"
                            THEN <<"generatePreBundledSnippet">> ELSE <<>>)
                           \o <<"log", "ensureDir", "write fails", "throw">>,
                        !.result = Rejected("write failed")]]
        /\ UNCHANGED <<root, cacheDir, resolveKeys, moduleCache, config, command, passes,
                       callerConfig, cleared, probe>>

FailBuiltin ==
    \E specifier \in BuiltinSpecifiers, left \in WriteFailures :
        BuiltinWriteFails(specifier, left)

FailDeclared ==
    \E source \in DeclaredSpecifiers, left \in WriteFailures :
        DeclaredWriteFails(source, left)

FailResume ==
    \E i \in 1..Len(calls), left \in WriteFailures : ResumeWriteFails(i, left)

NextFailing == Next \/ FailBuiltin \/ FailDeclared \/ FailResume

SpecFailing == Init /\ [][NextFailing]_vars

(***************************************************************************)
(* The path and pattern computations, applied on their own                 *)
(***************************************************************************)
\* The resolver an identifier reaches: the host tries the aliases in order,
\* and the primary alias comes first
ResolverOf(id) == IF FindMatches(PrimaryFind, id) THEN "builtin" ELSE "declared"

\* The wrapper path the resolver of an identifier computes for it
CacheFile(dir, id) ==
    IF ResolverOf(id) = "builtin"
    THEN BuiltinFile(dir, ReplaceGroup1(PrimaryFind, id))
    ELSE DeclaredFile(dir, id)

\* Identifiers one session can resolve
Identifiers ==
    {electron, fs, serialport, node_fetch, scope_package, scope_package_flat,
     lodash_fp, lodash_fp_flat}

\* Keys options.resolve can hold
DeclarableKeys == {lodash, lodash_fp, scope_package, file_js, c_plus_plus, jquery_dollar}

\* The non-empty key lists of at most n keys
KeyLists(n) == UNION {[1..k -> DeclarableKeys] : k \in 1..n}

\* Import specifiers the host can test against the declared-module pattern
SecondarySpecifiers == DeclarableKeys \cup {filexjs, scope_package_flat, lodash_fp_flat}

\* Import specifiers the host can test against the primary pattern
PrimarySpecifiers ==
    Range(electronBuiltins)
    \cup {node_electron, NodePrefix, NodePrefix \o NodePrefix \o fs, serialport, lodash_fp,
          fs \o Slash \o fs}

\* The defaults without the external list: every built-in would be bundled
DefaultBuildOptions_NoExternal(module, outdir) ==
    [entryPoints |-> <<module>>,
     outfile     |-> Outfile(outdir, module),
     target      |-> "node14",
     format      |-> "cjs",
     bundle      |-> TRUE,
     sourcemap   |-> "inline",
     platform    |-> "node",
     external    |-> <<>>]

\* The options prebundleModule sets before the caller's are spread over them
DefaultBuildOptions(module, outdir) ==
    [entryPoints |-> <<module>>,
     outfile     |-> Outfile(outdir, module),
     target      |-> "node14",
     format      |-> "cjs",
     bundle      |-> TRUE,
     sourcemap   |-> "inline",
     platform    |-> "node",
     external    |-> electronBuiltins]

\* { ...overrides, ...defaults }: the spread in the other order
Overlay_DefaultsWin(defaults, overrides) ==
    [k \in DOMAIN defaults \cup DOMAIN overrides |->
        IF k \in DOMAIN defaults THEN defaults[k] ELSE overrides[k]]

\* { ...defaults, ...overrides }: options are functions from names to values
Overlay(defaults, overrides) ==
    [k \in DOMAIN defaults \cup DOMAIN overrides |->
        IF k \in DOMAIN overrides THEN overrides[k] ELSE defaults[k]]

\* The argument prebundleModule hands to esbuild.build
EsbuildArgs(module, outdir, buildOptions) ==
    Overlay(DefaultBuildOptions(module, outdir), buildOptions)

\* No buildOptions: the default route, or an esm helper called with one argument
NoBuildOptions == [k \in {} |-> TRUE]

\* buildOptions a build function can hand to the esm helper
BuildOptionChoices ==
    << NoBuildOptions,
       [external |-> <<some_peer_dependency>>, define |-> "production"],
       [external |-> electronBuiltins \o <<some_peer_dependency>>],
       [format |-> "esm", target |-> "node20"],
       [outfile |-> PosixJoin(cwd, custom_module), bundle |-> FALSE],
       [sourcemap |-> "external", platform |-> "browser", minify |-> TRUE] >>

\* The modules handed to the secondary bundler
BundledModules == {node_fetch, my_special_module, scope_package}

\* The catalog of Electron APIs and the process types each is available in
ELECTRON_MAIN_APIS ==
    <<
       [name |-> "app", environments |-> <<"Main">>],
       [name |-> "autoUpdater", environments |-> <<"Main">>],
       [name |-> "BaseWindow", environments |-> <<"Main">>],
       [name |-> "BrowserView", environments |-> <<"Main">>],
       [name |-> "BrowserWindow", environments |-> <<"Main">>],
       [name |-> "View", environments |-> <<"Main">>],
       [name |-> "WebContentsView", environments |-> <<"Main">>],
       [name |-> "clipboard", environments |-> <<"Main", "Renderer">>],
       [name |-> "contentTracing", environments |-> <<"Main">>],
       [name |-> "crashReporter", environments |-> <<"Main", "Renderer">>],
       [name |-> "desktopCapturer", environments |-> <<"Main">>],
       [name |-> "dialog", environments |-> <<"Main">>],
       [name |-> "globalShortcut", environments |-> <<"Main">>],
       [name |-> "inAppPurchase", environments |-> <<"Main">>],
       [name |-> "ipcMain", environments |-> <<"Main">>],
       [name |-> "MessageChannelMain", environments |-> <<"Main">>],
       [name |-> "MessagePortMain", environments |-> <<"Main">>],
       [name |-> "Menu", environments |-> <<"Main">>],
       [name |-> "nativeImage", environments |-> <<"Main", "Renderer">>],
       [name |-> "nativeTheme", environments |-> <<"Main">>],
       [name |-> "Notification", environments |-> <<"Main">>],
       [name |-> "ShareMenu", environments |-> <<"Main">>],
       [name |-> "TouchBar", environments |-> <<"Main">>],
       [name |-> "Tray", environments |-> <<"Main">>],
       [name |-> "net", environments |-> <<"Main", "Utility">>],
       [name |-> "netLog", environments |-> <<"Main">>],
       [name |-> "powerMonitor", environments |-> <<"Main">>],
       [name |-> "powerSaveBlocker", environments |-> <<"Main">>],
       [name |-> "process", environments |-> <<"Main", "Renderer">>],
       [name |-> "screen", environments |-> <<"Main">>],
       [name |-> "systemPreferences", environments |-> <<"Main", "Utility">>],
       [name |-> "protocol", environments |-> <<"Main">>],
       [name |-> "pushNotifications", environments |-> <<"Main">>],
       [name |-> "safeStorage", environments |-> <<"Main">>],
       [name |-> "session", environments |-> <<"Main">>],
       [name |-> "ServiceWorkerMain", environments |-> <<"Main">>],
       [name |-> "shell", environments |-> <<"Main", "Renderer">>],
       [name |-> "webContents", environments |-> <<"Main">>],
       [name |-> "webFrameMain", environments |-> <<"Main">>],
       [name |-> "parentPort", environments |-> <<"Utility">>],
       [name |-> "utilityProcess", environments |-> <<"Main">>]
    >>

ApiNames == {ELECTRON_MAIN_APIS[i].name : i \in DOMAIN ELECTRON_MAIN_APIS}

\* Every descriptor that lists Main, whatever else it lists
getMainOnlyApis_AnyMain ==
    LET HasMain(api) == \E k \in DOMAIN api.environments : api.environments[k] = "Main"
        kept == SelectSeq(ELECTRON_MAIN_APIS, HasMain)
    IN  [i \in DOMAIN kept |-> kept[i].name]

\* filter(environments.length === 1 && environments[0] === "Main").map(name)
getMainOnlyApis ==
    LET MainOnly(api) == Len(api.environments) = 1 /\ api.environments[1] = "Main"
        kept == SelectSeq(ELECTRON_MAIN_APIS, MainOnly)
    IN  [i \in DOMAIN kept |-> kept[i].name]

\* The APIs of the renderer process the Electron wrapper exports besides the
\* catalog's
RendererOnlyApis == <<"contextBridge", "ipcRenderer", "webFrame">>

\* Generated module text, as its sequence of statements
Require(id) == [kind |-> "require", name |-> id, value |-> "module"]

ExportConst(name, value) == [kind |-> "export const", name |-> name, value |-> value]

ExportDefault == [kind |-> "export default", name |-> "default", value |-> "module"]

\* A wrapper that leaves out the APIs the renderer does not have
generateElectronSnippet_SkipsUnavailable ==
    LET Available(api) == \E k \in DOMAIN api.environments : api.environments[k] = "Renderer"
        kept == SelectSeq(ELECTRON_MAIN_APIS, Available)
    IN  <<Require("electron")>>
        \o [i \in DOMAIN kept |-> ExportConst(kept[i].name, "member")]
        \o <<ExportDefault>>

\* The wrapper of the electron module for the renderer: one named export per
\* catalog descriptor, bound to the member of the loaded module when the
\* descriptor lists Renderer and to undefined when it does not, the renderer's
\* own APIs (ipcRenderer behind its worker guard), and a default export
generateElectronSnippet ==
    LET Available(api) == \E k \in DOMAIN api.environments : api.environments[k] = "Renderer"
    IN  <<Require("electron")>>
        \o [i \in DOMAIN ELECTRON_MAIN_APIS |->
               ExportConst(ELECTRON_MAIN_APIS[i].name,
                           IF Available(ELECTRON_MAIN_APIS[i]) THEN "member" ELSE "undefined")]
        \o [i \in DOMAIN RendererOnlyApis |->
               ExportConst(RendererOnlyApis[i],
                           IF RendererOnlyApis[i] = "ipcRenderer" THEN "guard" ELSE "member")]
        \o <<ExportDefault>>

\* A wrapper that exports every given name, "default" included
generateCjsWrapperSnippet_KeepsDefault(id, names) ==
    <<Require(id), ExportDefault>>
    \o [i \in DOMAIN names |-> ExportConst(names[i], "member")]

\* The wrapper of a CommonJS module: a default export, and one named export
\* per given name other than "default"
generateCjsWrapperSnippet(id, names) ==
    LET NotDefault(name) == name # "default"
        kept == SelectSeq(names, NotDefault)
    IN  <<Require(id), ExportDefault>>
        \o [i \in DOMAIN kept |-> ExportConst(kept[i], "member")]

\* The member names a wrapped module can have
MemberNames == {"default", "foo", "bar"}

\* The lists of up to n distinct member names
ExportLists(n) ==
    UNION {{l \in [1..k -> MemberNames] : \A i, j \in 1..k : i # j => l[i] # l[j]} : k \in 0..n}

CachePathArgs ==
    [fn : {"cachePath"}, applied : {FALSE}, dir : CacheDirs,
     first : Identifiers, second : Identifiers, files : {<<>>}]

SecondaryArgs ==
    [fn : {"secondary"}, applied : {FALSE}, keys : KeyLists(MaxKeys),
     specifier : SecondarySpecifiers, matched : {FALSE}]

PrimaryArgs ==
    [fn : {"primary"}, applied : {FALSE}, specifier : PrimarySpecifiers, matched : {FALSE}]

\* A call of prebundleModule: by the resolver's esm route, which passes no
\* buildOptions, or by the esm helper of a build function
PrebundleArgs(via, module, outdir, n) ==
    [fn |-> "prebundle", applied |-> FALSE, via |-> via, module |-> module,
     outdir |-> outdir, buildOptions |-> BuildOptionChoices[n], args |-> NoBuildOptions]

InitFunctions ==
    /\ InitInstance
    /\ \/ probe \in CachePathArgs
       \/ probe \in SecondaryArgs
       \/ probe \in PrimaryArgs
       \/ \E name \in ApiNames \cup Range(RendererOnlyApis) :
             probe = [fn |-> "getMainOnlyApis", applied |-> FALSE, name |-> name,
                      names |-> <<>>]
       \/ \E name \in ApiNames :
             probe = [fn |-> "generateElectronSnippet", applied |-> FALSE, name |-> name,
                      text |-> <<>>]
       \/ \E id \in {serialport, scope_package}, names \in ExportLists(MaxNames) :
             probe = [fn |-> "generateCjsWrapperSnippet", applied |-> FALSE, id |-> id,
                      names |-> names, text |-> <<>>]
       \/ \E module \in BundledModules, outdir \in CacheDirs :
             \/ probe = PrebundleArgs("route", module, outdir, 1)
             \/ \E n \in 1..Len(BuildOptionChoices) :
                   probe = PrebundleArgs("helper", module, outdir, n)

Others == <<root, cacheDir, resolveKeys, moduleCache, disk, config, command, passes, calls,
            callerConfig, cleared>>

\* The cache paths of two identifiers under one cache directory
CachePaths ==
    /\ probe.fn = "cachePath" /\ ~probe.applied
    /\ probe' = [probe EXCEPT !.applied = TRUE,
                              !.files = <<CacheFile(probe.dir, probe.first),
                                          CacheFile(probe.dir, probe.second)>>]
    /\ UNCHANGED Others

\* find.test(specifier) for the declared-module pattern built from a key list
TestSecondary ==
    /\ probe.fn = "secondary" /\ ~probe.applied
    /\ probe' = [probe EXCEPT !.applied = TRUE,
                              !.matched = FindMatches(SecondaryFind(probe.keys),
                                                      probe.specifier)]
    /\ UNCHANGED Others

\* find.test(specifier) for the primary pattern
TestPrimary ==
    /\ probe.fn = "primary" /\ ~probe.applied
    /\ probe' = [probe EXCEPT !.applied = TRUE,
                              !.matched = FindMatches(PrimaryFind, probe.specifier)]
    /\ UNCHANGED Others

\* prebundleModule up to its call of esbuild.build
Prebundle ==
    /\ probe.fn = "prebundle" /\ ~probe.applied
    /\ probe' = [probe EXCEPT !.applied = TRUE,
                              !.args = EsbuildArgs(probe.module, probe.outdir,
                                                   probe.buildOptions)]
    /\ UNCHANGED Others

\* A call of getMainOnlyApis
MainOnlyApis ==
    /\ probe.fn = "getMainOnlyApis" /\ ~probe.applied
    /\ probe' = [probe EXCEPT !.applied = TRUE, !.names = getMainOnlyApis]
    /\ UNCHANGED Others

\* A call of generateElectronSnippet
ElectronWrapper ==
    /\ probe.fn = "generateElectronSnippet" /\ ~probe.applied
    /\ probe' = [probe EXCEPT !.applied = TRUE, !.text = generateElectronSnippet]
    /\ UNCHANGED Others

\* A call of generateCjsWrapperSnippet
CjsWrapper ==
    /\ probe.fn = "generateCjsWrapperSnippet" /\ ~probe.applied
    /\ probe' = [probe EXCEPT !.applied = TRUE,
                              !.text = generateCjsWrapperSnippet(probe.id, probe.names)]
    /\ UNCHANGED Others

NextFunctions ==
    \/ CachePaths \/ TestSecondary \/ TestPrimary \/ Prebundle
    \/ MainOnlyApis \/ ElectronWrapper \/ CjsWrapper

SpecFunctions == InitFunctions /\ [][NextFunctions]_vars

(***************************************************************************)
(* Properties                                                              *)
(***************************************************************************)
Count(t, e) == Cardinality({k \in 1..Len(t) : t[k] = e})

Calls == 1..Len(calls)

\* The call a step starts, when it starts one
Started == calls'[Len(calls')]

Starts == Len(calls') = Len(calls) + 1

\* The wrapper path the resolver of call c computes in the current state
CacheFileOf(c) ==
    IF c.resolver = "builtin" THEN BuiltinFile(cacheDir, c.source)
    ELSE DeclaredFile(cacheDir, c.source)

\* Whether call c invoked a generator, a build function or the bundler
Generated(c) ==
    Count(c.trace, "build") + Count(c.trace, "generateModuleSnippet")
    + Count(c.trace, "generateElectronSnippet") + Count(c.trace, "prebundleModule") > 0

Wrote(c) == Count(c.trace, "write") > 0

\* Call j follows call i and no other call overlaps either of them
Successive(i, j) ==
    /\ j = i + 1
    /\ i \in calls[j].doneBefore
    /\ \A k \in Calls : k < i => k \in calls[i].doneBefore
    /\ \A k \in Calls : k > j => j \in calls[k].doneBefore

\* Calls i and j ask the same resolver for the same identifier
SameRequest(i, j) ==
    calls[i].resolver = calls[j].resolver /\ calls[i].specifier = calls[j].specifier

\* C1: two successive resolver calls for the same matched identifier return
\* the same path, and between them they write the cache file at most once.
C1_Idempotent ==
    \A i, j \in Calls :
        (Successive(i, j) /\ SameRequest(i, j) /\ calls[i].matched) =>
            /\ (calls[i].result.status = "fulfilled" /\ calls[j].result.status = "fulfilled")
                  => calls[i].result.value = calls[j].result.value
            /\ Count(calls[i].trace, "write") + Count(calls[j].trace, "write") <= 1

\* Two successive calls for one identifier, the first of which wrote the file,
\* with the cache directory changed in between
C1_Witness ==
    \E i, j \in Calls :
        /\ Successive(i, j) /\ SameRequest(i, j) /\ calls[i].matched
        /\ calls[i].result.status = "fulfilled" /\ calls[j].result.status = "fulfilled"
        /\ Wrote(calls[i])
        /\ calls[i].dir # calls[j].dir

\* The calls for the identifier s
CallsFor(s) == {i \in Calls : calls[i].source = s}

\* C2 as stated: under every interleaving the generator of a declared
\* identifier is invoked at most once and its cache file written at most once.
C2_AtMostOnce ==
    \A s \in DeclaredKeys :
        /\ Cardinality({i \in CallsFor(s) : Generated(calls[i])}) <= 1
        /\ Cardinality({i \in CallsFor(s) : Wrote(calls[i])}) <= 1

\* Identifiers whose generation meets no await
Unsuspended ==
    Range(<<electron>> \o builtins)
    \cup {ResolveOptions[i].key : i \in {k \in 1..Len(ResolveOptions) :
              ResolveOptions[k].type = "cjs" /\ ResolveOptions[k].build = "none"}}

\* C2 amended: a call that starts after a call for the same identifier has
\* returned its cache path neither generates nor writes; every call generates
\* and writes at most once; an identifier whose generation does not suspend
\* is written at most once in the session.
C2_OncePerMissingCall ==
    /\ \A j \in Calls : \A i \in calls[j].doneBefore :
          (SameRequest(i, j)
           /\ calls[i].result.status = "fulfilled"
           /\ calls[i].result.value.id # calls[i].source)
             => ~Generated(calls[j]) /\ ~Wrote(calls[j])
    /\ \A i \in Calls :
          /\ Count(calls[i].trace, "write") <= 1
          /\ Count(calls[i].trace, "build") <= 1
          /\ Count(calls[i].trace, "esbuild.build") <= 1
          /\ Count(calls[i].trace, "generateModuleSnippet") <= 1
    /\ \A s \in Unsuspended : Cardinality({i \in CallsFor(s) : Wrote(calls[i])}) <= 1

\* Two overlapping calls for one declared identifier that both generated and
\* both wrote the cache file
C2_Witness ==
    \E i, j \in Calls :
        /\ i < j /\ SameRequest(i, j) /\ i \notin calls[j].doneBefore
        /\ calls[i].pc = "done" /\ calls[j].pc = "done"
        /\ Generated(calls[i]) /\ Generated(calls[j])
        /\ Wrote(calls[i]) /\ Wrote(calls[j])

\* C3: a call that finds no in-memory entry but finds the cache file on disk
\* returns that path and records it, invokes no generator, build function or
\* bundler, and leaves every file as it was.
C3_DiskHitTrusted ==
    [][ (Starts /\ CacheGet(Started.source) = NoValue /\ existsSync(CacheFileOf(Started)))
          => /\ disk' = disk
             /\ Started.source \in DOMAIN moduleCache'
             /\ moduleCache'[Started.source] = CacheFileOf(Started)
             /\ Started.result = Fulfilled(Resolved(CacheFileOf(Started)))
             /\ ~Generated(Started)
             /\ ~Wrote(Started) ]_vars

\* A declared ESM identifier resolved from a file an earlier session left
C3_Witness ==
    \E i \in Calls :
        /\ calls[i].resolver = "declared"
        /\ calls[i].source = node_fetch
        /\ calls[i].route = "disk"
        /\ calls[i].result = Fulfilled(Resolved(calls[i].filename))
        /\ disk[calls[i].filename] = PriorContent

\* Whether the declared-module pattern the latest pass installed matches s
ActiveMatches(s) ==
    /\ Len(resolveKeys) > 0
    /\ FindMatches(config.alias.items[Len(config.alias.items)].find, s)

\* The declared identifiers a pass with command cmd is meant to intercept
ActiveFor(cmd) ==
    {ResolveOptions[i].key : i \in {k \in 1..Len(ResolveOptions) :
         ~(cmd = "build" /\ ResolveOptions[k].type = "esm")}}

\* C4: the pattern a build pass installs does not match an ESM-declared
\* identifier, the pattern a serve pass installs does, and a CJS-declared
\* identifier matches in both modes.
C4_BuildModeAsymmetry ==
    passes >= 1 =>
        \A i \in 1..Len(ResolveOptions) :
            /\ ResolveOptions[i].type = "esm" =>
                  (ActiveMatches(ResolveOptions[i].key) <=> command = "serve")
            /\ ResolveOptions[i].type = "cjs" => ActiveMatches(ResolveOptions[i].key)

\* C5: the alternatives of the pattern the latest pass installed are exactly
\* the declared identifiers active for that pass's mode.
C5_RecomputedPerPass ==
    passes >= 1 =>
        LET alts == IF Len(resolveKeys) > 0
                    THEN Range(config.alias.items[Len(config.alias.items)].find.alts)
                    ELSE {}
        IN  alts = {escapeRegex(k) : k \in ActiveFor(command)}

\* C6: the built-in resolver answers "node:" + b and b with the same path,
\* keeps one in-memory entry under b and one cache file for both.
C6_PrefixNormalization ==
    \A n \in 1..Len(builtins) :
        LET b     == builtins[n]
            forms == {b, NodePrefix \o b}
            asked == {i \in Calls : calls[i].resolver = "builtin" /\ calls[i].specifier \in forms}
        IN  /\ \A i, j \in asked : calls[i].result = calls[j].result
            /\ (NodePrefix \o b) \notin DOMAIN moduleCache
            /\ \A d \in CacheDirs : BuiltinFile(d, NodePrefix \o b) \notin DOMAIN disk
            /\ Cardinality({i \in asked : Wrote(calls[i])}) <= 1

\* The bare and the prefixed form of one built-in have both been resolved,
\* the prefixed one first
C6_Witness ==
    \E i, j \in Calls :
        /\ i < j
        /\ calls[i].resolver = "builtin" /\ calls[j].resolver = "builtin"
        /\ calls[i].specifier = NodePrefix \o fs
        /\ calls[j].specifier = fs
        /\ Wrote(calls[i])
        /\ calls[j].result = calls[i].result

\* C7: a declared identifier that reaches generation takes exactly one route:
\* its build function if it has one, else the CJS wrapper generator if its
\* type is cjs, else the secondary bundler if its type is esm.
C7_DispatchPriority ==
    [][ (/\ Starts
         /\ Started.resolver = "declared"
         /\ Started.source \in DeclaredKeys
         /\ CacheGet(Started.source) = NoValue
         /\ ~existsSync(CacheFileOf(Started)))
          => LET o == ResolveOptions[CHOOSE i \in 1..Len(ResolveOptions) :
                                         ResolveOptions[i].key = Started.source]
                 t == Started.trace
             IN  IF o.build # "none"
                 THEN /\ Head(t) = "build" /\ Count(t, "build") = 1
                      /\ Count(t, "generateModuleSnippet") + Count(t, "prebundleModule") <= 1
                 ELSE IF o.type = "cjs"
                 THEN /\ Head(t) = "generateModuleSnippet"
                      /\ Count(t, "generateModuleSnippet") = 1
                      /\ Count(t, "build") = 0 /\ Count(t, "prebundleModule") = 0
                 ELSE /\ o.type = "esm"
                      /\ Head(t) = "prebundleModule"
                      /\ Count(t, "prebundleModule") = 1
                      /\ Count(t, "build") = 0 /\ Count(t, "generateModuleSnippet") = 0 ]_vars

\* An ESM-declared identifier with a build function went through the build
\* function, and a plain ESM one through the bundler
C7_Witness ==
    /\ \E i \in Calls : calls[i].source = my_special_module /\ calls[i].route = "build"
    /\ \E i \in Calls : calls[i].source = node_fetch /\ calls[i].route = "esm"

\* The identifiers declared with type cjs and no build function
PlainCjs ==
    {ResolveOptions[i].key : i \in {k \in 1..Len(ResolveOptions) :
         ResolveOptions[k].type = "cjs" /\ ResolveOptions[k].build = "none"}}

\* C8: resolving an identifier declared with type cjs and no build function
\* never invokes the secondary bundler.
C8_PlainCjsNeverBundles ==
    /\ \A i \in Calls :
          calls[i].source \in PlainCjs =>
              /\ Count(calls[i].trace, "prebundleModule") = 0
              /\ Count(calls[i].trace, "esbuild.build") = 0
              /\ calls[i].bundler = "none"
    /\ \A s \in PlainCjs : \A d \in CacheDirs : Outfile(d, s) \notin DOMAIN disk

\* serialport generated on a miss during a build pass
C8_Witness ==
    \E i \in Calls :
        /\ calls[i].source = serialport
        /\ calls[i].route = "cjs"
        /\ calls[i].pc = "done"
        /\ command = "build"
        /\ disk[calls[i].filename] = ModuleSnippet(serialport)

\* C9: when esbuild.build fails during the resolution of an ESM-declared
\* identifier, the call rejects with that failure, has invoked the bundler
\* exactly once, and neither writes a wrapper file nor records an entry.
C9_BundlerFailurePropagates ==
    [][ \A i \in Calls :
          (calls[i].bundler = "pending" /\ calls'[i].bundler \in BundlerErrors)
            => /\ calls'[i].result = Rejected(calls'[i].bundler)
               /\ Count(calls'[i].trace, "esbuild.build") = 1
               /\ Count(calls'[i].trace, "write") = 0
               /\ Count(calls'[i].trace, "record") = 0
               /\ disk' = disk
               /\ moduleCache' = moduleCache ]_vars

\* A call for node-fetch rejected with the bundler's error, the identifier
\* neither recorded nor written
C9_Witness ==
    \E i \in Calls :
        /\ calls[i].source = node_fetch
        /\ calls[i].bundler = "syntax error"
        /\ calls[i].result = Rejected("syntax error")
        /\ node_fetch \notin DOMAIN moduleCache
        /\ calls[i].filename \notin DOMAIN disk

\* C10 as stated: a call that falls through to the host returns exactly the
\* host's result, null included.
C10_HostResultUnmasked ==
    \A i \in Calls :
        calls[i].host.asked => calls[i].result = Fulfilled(calls[i].host.answer)

\* C10 amended: a call that falls through to the host returns the host's
\* result when there is one, and { id: source } when the host answers null.
C10_HostResultOrSource ==
    \A i \in Calls :
        calls[i].host.asked =>
            calls[i].result =
                Fulfilled(IF calls[i].host.answer.null
                          THEN Resolved(calls[i].source)
                          ELSE calls[i].host.answer)

\* The host answered null for an identifier that fell through
C10_Witness ==
    \E i \in Calls :
        /\ calls[i].host.asked
        /\ calls[i].host.answer = Null
        /\ calls[i].result = Fulfilled(Resolved(calls[i].source))

\* C11: two different identifiers resolved under one cache directory get two
\* different cache file paths.
C11_DistinctPaths ==
    (probe.fn = "cachePath" /\ probe.applied /\ probe.first # probe.second)
        => probe.files[1] # probe.files[2]

\* Call i returns in this step
ReturnsIn(i) ==
    /\ calls'[i].pc = "done"
    /\ (i > Len(calls) \/ calls[i].pc = "await")

\* Call i has returned a path of the cache directory
ReturnedCachePath(c) == c.pc = "done" /\ c.result.status = "fulfilled" /\ ~c.host.asked

\* C12 as stated: whenever a resolver returns a cache path, a file exists at
\* that path when it returns, also after the cache was emptied from outside.
C12_FileExistsAtReturn ==
    [][ \A i \in 1..Len(calls') :
          (ReturnsIn(i) /\ ReturnedCachePath(calls'[i]))
            => calls'[i].result.value.id \in DOMAIN disk' ]_vars

\* C12 amended: a call that finds no in-memory entry returns a path at which a
\* file exists when it returns; a call that finds one returns the recorded
\* path without reading or writing the file system, and the file exists then
\* if the cache has never been emptied from outside.
C12_FileExistsUnlessStaleEntry ==
    [][ \A i \in 1..Len(calls') :
          (ReturnsIn(i) /\ ReturnedCachePath(calls'[i]))
            => LET c == calls'[i]
               IN  /\ c.route # "memory" => c.result.value.id \in DOMAIN disk'
                   /\ c.route = "memory" =>
                         /\ c.result.value.id = moduleCache[c.source]
                         /\ disk' = disk
                         /\ moduleCache' = moduleCache
                         /\ ~cleared.happened => c.result.value.id \in DOMAIN disk' ]_vars

\* A call that started after the cache was last emptied found the in-memory
\* entry of an earlier call and returned its path, at which there is no file
C12_Witness ==
    \E j \in Calls :
        /\ cleared.happened /\ j > cleared.calls
        /\ calls[j].route = "memory"
        /\ ReturnedCachePath(calls[j])
        /\ calls[j].result.value.id \notin DOMAIN disk

\* C13: the declared-module pattern built from a list of identifiers matches a
\* specifier exactly when the specifier is equal to one of the identifiers.
C13_EscapedPatternIsExact ==
    (probe.fn = "secondary" /\ probe.applied)
        => (probe.matched <=> probe.specifier \in Range(probe.keys))

\* The pattern built from file.js and c++ has been tested against filexjs and
\* did not match
C13_Witness ==
    /\ probe.fn = "secondary" /\ probe.applied
    /\ probe.keys = <<file_js, c_plus_plus>>
    /\ probe.specifier = filexjs
    /\ ~probe.matched

\* C14: the primary pattern matches a specifier exactly when the specifier is
\* "electron", a built-in name, or a built-in name prefixed with "node:".
C14_PrimaryPatternIsExact ==
    (probe.fn = "primary" /\ probe.applied)
        => (probe.matched <=> probe.specifier \in Range(electronBuiltins))

\* The entries a list holds after its first n
Added(list, n) == SubSeq(list, n + 1, Len(list))

\* No entry occurs twice in the list
NoRepeat(list) == \A i, j \in 1..Len(list) : list[i] = list[j] => i = j

\* C15: a list handed in as commonjsOptions.ignore keeps its entries in their
\* order, holds every entry of electronBuiltins after the pass, gets no entry
\* it already held and none twice, and a second application of the adapter
\* leaves it as it is.
C15_ArrayIgnoreMerge ==
    (passes >= 1 /\ callerConfig.ignore.shape = "array") =>
        LET before == callerConfig.ignore.items
            after  == config.ignore.items
        IN  /\ config.ignore.shape = "array"
            /\ Len(after) >= Len(before)
            /\ SubSeq(after, 1, Len(before)) = before
            /\ \A b \in Range(electronBuiltins) : Includes(after, b)
            /\ NoRepeat(Added(after, Len(before)))
            /\ \A x \in Range(Added(after, Len(before))) :
                  x \in Range(electronBuiltins) /\ ~Includes(before, x)
            /\ adaptElectron(config).ignore = config.ignore

\* A list that held two of the three built-in entries and one other entry
C15_Witness ==
    /\ passes >= 1
    /\ callerConfig.ignore = Array(<<lodash, NodePrefix \o fs, electron>>)
    /\ config.ignore = Array(<<lodash, NodePrefix \o fs, electron, fs>>)

\* Ids a commonjs predicate can be asked about
IgnoreIds == Range(electronBuiltins) \cup {lodash, serialport, node_electron}

\* C16: when the caller handed in a predicate, the installed predicate returns
\* true for an id exactly when the caller's does or electronBuiltins holds the
\* id; when the caller handed in nothing, the list installed is
\* electronBuiltins.
C16_FunctionIgnoreMerge ==
    passes >= 1 =>
        /\ callerConfig.ignore.shape = "function" =>
              /\ config.ignore.shape = "function"
              /\ \A id \in IgnoreIds :
                    Includes(config.ignore.items, id)
                       <=> (Includes(callerConfig.ignore.items, id)
                            \/ id \in Range(electronBuiltins))
        /\ callerConfig.ignore.shape = "absent" =>
              config.ignore = Array(electronBuiltins)

\* The caller's predicate accepted lodash only; the installed one accepts
\* lodash and the built-ins, and not serialport
C16_Witness ==
    /\ passes >= 1
    /\ callerConfig.ignore = Function(<<lodash>>)
    /\ config.ignore.shape = "function"
    /\ Includes(config.ignore.items, lodash)
    /\ Includes(config.ignore.items, fs)
    /\ ~Includes(config.ignore.items, serialport)

\* C17 as stated: after a pass the freeze flag of every output target is false.
C17_FreezeAlwaysFalse ==
    passes >= 1 =>
        \A i \in 1..Len(config.output.items) : config.output.items[i].freeze = "false"

\* C17 amended: an absent output becomes { freeze: false }; a given output
\* keeps its form and its targets, and each target ends with freeze false if
\* the caller left the flag unset and with the caller's value otherwise.
C17_FreezeFalseUnlessSet ==
    passes >= 1 =>
        IF callerConfig.output.shape = "absent"
        THEN config.output = Object(<<[freeze |-> "false"]>>)
        ELSE /\ config.output.shape = callerConfig.output.shape
             /\ Len(config.output.items) = Len(callerConfig.output.items)
             /\ \A i \in 1..Len(config.output.items) :
                   config.output.items[i].freeze =
                       IF callerConfig.output.items[i].freeze = "unset"
                       THEN "false"
                       ELSE callerConfig.output.items[i].freeze

\* Two targets, the second with freeze set to true by the caller
C17_Witness ==
    /\ passes >= 1
    /\ callerConfig.output = Array(<<[freeze |-> "unset"], [freeze |-> "true"]>>)
    /\ config.output = Array(<<[freeze |-> "false"], [freeze |-> "true"]>>)

\* C18: after a pass base is "./" if the caller left it unset and the caller's
\* value otherwise.
C18_BaseDefault ==
    passes >= 1 =>
        config.base = IF callerConfig.base.shape = "absent"
                      THEN Str(DefaultBase)
                      ELSE callerConfig.base

\* The caller's base was kept
C18_Witness ==
    /\ passes >= 1
    /\ callerConfig.base = Str(CustomBase)
    /\ config.base = Str(CustomBase)

\* The caller's aliases as an ordered list of { find, replacement }
CallerAliases ==
    IF callerConfig.alias.shape = "absent" THEN <<>>
    ELSE IF callerConfig.alias.shape = "mapping"
    THEN [i \in 1..Len(callerConfig.alias.items) |->
             [find |-> callerConfig.alias.items[i][1],
              replacement |-> callerConfig.alias.items[i][2]]]
    ELSE callerConfig.alias.items

\* C19: after a pass resolve.alias is a list: the caller's aliases in their
\* order, then the built-in alias, then the declared-module alias.
C19_AliasOrder ==
    passes >= 1 =>
        LET n     == Len(CallerAliases)
            after == config.alias.items
        IN  /\ config.alias.shape = "array"
            /\ Len(after) = n + (IF Len(resolveKeys) > 0 THEN 2 ELSE 1)
            /\ SubSeq(after, 1, n) = CallerAliases
            /\ after[n + 1].customResolver = "builtin"
            /\ after[n + 1].find = PrimaryFind
            /\ Len(resolveKeys) > 0 =>
                  /\ after[n + 2].customResolver = "declared"
                  /\ after[n + 2].find = SecondaryFind(resolveKeys)

\* Two aliases given as an object are followed by the two plugin aliases
C19_Witness ==
    /\ passes >= 1
    /\ callerConfig.alias.shape = "mapping"
    /\ Len(config.alias.items) = 4
    /\ config.alias.items[1] = [find |-> AtSign, replacement |-> SrcDir]
    /\ config.alias.items[2] = [find |-> lodash, replacement |-> lodash_fp]
    /\ config.alias.items[3].customResolver = "builtin"
    /\ config.alias.items[4].customResolver = "declared"

\* The caller's optimizeDeps.exclude
CallerExclude ==
    IF callerConfig.exclude.shape = "absent" THEN <<>> ELSE callerConfig.exclude.items

C21_ExternalHoldsBuiltins ==
    (probe.fn = "prebundle" /\ probe.applied)
        => \A b \in Range(electronBuiltins) : Includes(probe.args.external, b)

\* C21 amended: the external list is electronBuiltins when the caller's
\* buildOptions have no external key, as on the default route, and is the
\* caller's list when they have one.
C21_ExternalUnlessOverridden ==
    (probe.fn = "prebundle" /\ probe.applied)
        => IF "external" \in DOMAIN probe.buildOptions
           THEN probe.args.external = probe.buildOptions.external
           ELSE /\ probe.args.external = electronBuiltins
                /\ \A b \in Range(electronBuiltins) : Includes(probe.args.external, b)

\* The esm helper was called with external: ['some-peer-dependency'], and the
\* bundler was handed that list
C21_Witness ==
    /\ probe.fn = "prebundle" /\ probe.applied
    /\ probe.via = "helper"
    /\ probe.buildOptions = BuildOptionChoices[2]
    /\ probe.args.external = <<some_peer_dependency>>
    /\ ~Includes(probe.args.external, electron)

\* C22: the argument of esbuild.build has the caller's value under every key
\* of buildOptions, and under every other key the fixed default: the module
\* as the entry point, outdir/<sanitized module>.cjs as outfile, format cjs,
\* bundle true, an inline source map, platform node.
C22_OverridesWin ==
    (probe.fn = "prebundle" /\ probe.applied) =>
        LET given == probe.buildOptions
            args  == probe.args
            keep(k, v) == k \notin DOMAIN given => args[k] = v
        IN  /\ DOMAIN args =
                  DOMAIN given \cup {"entryPoints", "outfile", "target", "format",
                                     "bundle", "sourcemap", "platform", "external"}
            /\ \A k \in DOMAIN given : args[k] = given[k]
            /\ keep("entryPoints", <<probe.module>>)
            /\ keep("outfile", probe.outdir \o Slash \o SafeName(probe.module) \o CjsExt)
            /\ keep("format", "cjs")
            /\ keep("bundle", TRUE)
            /\ keep("sourcemap", "inline")
            /\ keep("platform", "node")

\* buildOptions with outfile and bundle: both are taken from the caller, the
\* format stays cjs
C22_Witness ==
    /\ probe.fn = "prebundle" /\ probe.applied
    /\ probe.buildOptions = BuildOptionChoices[5]
    /\ probe.args.outfile = PosixJoin(cwd, custom_module)
    /\ probe.args.bundle = FALSE
    /\ probe.args.format = "cjs"
    /\ probe.args.entryPoints = <<probe.module>>

\* The positions of trace t that hold an event of E
Positions(t, E) == {k \in 1..Len(t) : t[k] \in E}

\* The events that start a pre-bundling action of the declared resolver
PreBundlingEvents ==
    {"generateModuleSnippet", "build", "prebundleModule", "esbuild.build",
     "generatePreBundledSnippet"}

\* C23: whatever the verbose option is set to, a resolver call logs its
\* pre-bundling line only when verbose is set, and then before the generation
\* or the bundler call it announces starts; with verbose unset (the documented
\* default) no line is logged.
C23_LogOnlyVerboseAndBefore ==
    \A verbose \in BOOLEAN : \A i \in Calls :
        LET t == calls[i].trace
        IN  /\ ~verbose => Positions(t, {"log"}) = {}
            /\ verbose => \A l \in Positions(t, {"log"}) :
                             \A g \in Positions(t, PreBundlingEvents) : l < g

\* The set of process types descriptor api lists
EnvironmentsOf(api) == Range(api.environments)

\* C24: getMainOnlyApis returns exactly the names of the catalog descriptors
\* whose environments are exactly {Main}: app, BrowserWindow and Menu are among
\* them, clipboard, shell, nativeImage, net and parentPort are not; and every
\* descriptor of the catalog lists at least one environment.
C24_MainOnlyNames ==
    (probe.fn = "getMainOnlyApis" /\ probe.applied) =>
        LET returned == Range(probe.names)
        IN  /\ returned = {api.name : api \in {d \in Range(ELECTRON_MAIN_APIS) :
                                                 EnvironmentsOf(d) = {"Main"}}}
            /\ \A api \in Range(ELECTRON_MAIN_APIS) :
                  api.name = probe.name =>
                      (probe.name \in returned <=> EnvironmentsOf(api) = {"Main"})
            /\ probe.name \notin ApiNames => probe.name \notin returned
            /\ {"app", "BrowserWindow", "Menu"} \subseteq returned
            /\ returned \cap {"clipboard", "shell", "nativeImage", "net", "parentPort"} = {}
            /\ \A api \in Range(ELECTRON_MAIN_APIS) : EnvironmentsOf(api) # {}

\* getMainOnlyApis was asked about net, which lists Main and Utility, and
\* returned a list with app and without net
C24_Witness ==
    /\ probe.fn = "getMainOnlyApis" /\ probe.applied
    /\ probe.name = "net"
    /\ Includes(probe.names, "app")
    /\ ~Includes(probe.names, "net")

\* The named exports of name n in text t
NamedExports(t, n) == {k \in DOMAIN t : t[k].kind = "export const" /\ t[k].name = n}

DefaultExports(t) == {k \in DOMAIN t : t[k].kind = "export default"}

\* C25: the Electron wrapper has a named export for every descriptor of the
\* catalog; the export of a descriptor that does not list Renderer is bound to
\* undefined, never to an expression that throws; and the wrapper has a
\* default export.
C25_AdapterCoverage ==
    (probe.fn = "generateElectronSnippet" /\ probe.applied) =>
        /\ \A api \in Range(ELECTRON_MAIN_APIS) :
              /\ Cardinality(NamedExports(probe.text, api.name)) = 1
              /\ "Renderer" \notin EnvironmentsOf(api) =>
                    \A k \in NamedExports(probe.text, api.name) :
                        probe.text[k].value = "undefined"
        /\ NamedExports(probe.text, probe.name) # {}
        /\ DefaultExports(probe.text) # {}

\* The wrapper was generated and looked up for app, which lists Main only: app
\* is exported as undefined, clipboard as the member of the loaded module
C25_Witness ==
    /\ probe.fn = "generateElectronSnippet" /\ probe.applied
    /\ probe.name = "app"
    /\ \E k \in NamedExports(probe.text, "app") : probe.text[k].value = "undefined"
    /\ \E k \in NamedExports(probe.text, "clipboard") : probe.text[k].value = "member"
    /\ DefaultExports(probe.text) # {}

C27_EntriesNeverChange ==
    [][\A s \in DOMAIN moduleCache :
          s \in DOMAIN moduleCache' /\ moduleCache'[s] = moduleCache[s]]_vars

\* The declared identifiers that have a build function
BuilderKeys ==
    {ResolveOptions[i].key : i \in {k \in 1..Len(ResolveOptions) :
         ResolveOptions[k].build # "none"}}

\* C28: a build function takes precedence over the type in build mode too:
\* after a config pass with command build, the pattern installed for declared
\* identifiers matches every identifier that has a build function, the ones of
\* type esm included.
C28_BuilderKeysStayActive ==
    (passes > 0 /\ command = "build") => \A s \in BuilderKeys : ActiveMatches(s)

\* The calls of the built-in resolver for identifier s
BuiltinCallsFor(s) == {i \in CallsFor(s) : calls[i].resolver = "builtin"}

\* C29: a call of the built-in resolver is never seen suspended: in every
\* state it has run to its return, with its check of the map, its check of the
\* disk, its generation, its write and its record all in the step that
\* started it; and whatever other calls it is interleaved with, the calls for
\* one built-in identifier write its cache file at most once in a session.
C29_BuiltinAtomic ==
    /\ \A i \in Calls :
          calls[i].resolver = "builtin" =>
              /\ calls[i].pc = "done" /\ calls[i].awaiting = "none"
              /\ Wrote(calls[i]) =>
                    /\ calls[i].route = "generate"
                    /\ calls[i].trace[Len(calls[i].trace)] = "record"
    /\ \A s \in Range(<<electron>> \o builtins) :
          Cardinality({i \in BuiltinCallsFor(s) : Wrote(calls[i])}) <= 1

\* fs was resolved as fs and as node:fs: the first call generated and wrote
\* the file, the second wrote nothing
C29_Witness ==
    \E i, j \in BuiltinCallsFor(fs) :
        /\ i < j
        /\ calls[i].specifier # calls[j].specifier
        /\ Wrote(calls[i])
        /\ ~Wrote(calls[j])
        /\ calls[j].route = "memory"

\* Call i threw
Failed(c) == c.pc = "done" /\ c.result.status = "rejected"

\* C30: a call records a cache path only after it has seen the file on disk or
\* has written it; a call whose generation or write fails records nothing; and
\* the next call for the same identifier under the same cache directory, when
\* no other call for it has intervened, goes through generation again.
C30_RecordAfterMaterialize ==
    /\ \A i \in Calls :
          LET c == calls[i]
          IN  /\ (Positions(c.trace, {"record"}) # {} /\ c.route # "passthrough") =>
                    \/ c.route = "disk"
                    \/ \E w \in Positions(c.trace, {"write"}) :
                          \A r \in Positions(c.trace, {"record"}) : w < r
              /\ Failed(c) => Positions(c.trace, {"record"}) = {}
    /\ \A i, j \in Calls :
          ( /\ Failed(calls[i])
            /\ i \in calls[j].doneBefore
            /\ calls[i].source = calls[j].source
            /\ calls[i].dir = calls[j].dir
            /\ CallsFor(calls[i].source) = {i, j} )
          => calls[j].route \notin {"memory", "disk"}

=============================================================================
